---- MODULE Spec2Model ----
(***************************************************************************)
(* Model of orientation_assist.py: the overhang-area metric, the           *)
(* machine-fit loop of process_file, and the Tk callbacks open_files and   *)
(* export_to_excel working on the module-level list processed_data.        *)
(*                                                                         *)
(* Lengths and areas are fixed-point integers in units of 0.001 (Milli),   *)
(* so that round(v, 2) is a real rounding step.  Angles are in units of    *)
(* 0.001 degree.  Vectors are integer triples; face normals are unit       *)
(* vectors scaled by NormalScale.                                          *)
(***************************************************************************)
EXTENDS Integers, Sequences, FiniteSets, TLC

VARIABLES
    \* ---- Tk application state (open_files / export_to_excel) ----
    pc,                 \* position of the Tk callback: "idle", "loop", "done"
    file_paths,         \* local file_paths of open_files (dialog result)
    idx,                \* loop variable idx of the for loop in open_files
    ret,                \* last (result, error) returned by process_file
    processed_data,     \* module-level list processed_data
    progress_value,     \* progress["value"]
    progress_maximum,   \* progress["maximum"]
    output_text,        \* contents of the output_text widget, one entry per insert
    msgbox,             \* last messagebox shown
    save_path,          \* local save_path of export_to_excel (dialog result)
    saved,              \* rows of the workbook last written by wb.save
    callback_exc,       \* last exception that escaped a Tk callback
    \* ---- machine-fit loop of process_file, run on its own ----
    extents,            \* (size_x, size_y, size_z)
    fitting_machines,   \* list fitting_machines
    best_fit,           \* the 'Best Fit Machine' text
    fit_pc,             \* "start" / "done"
    \* ---- calculate_overhang_area, run on its own ----
    tri_mesh,           \* sequence of faces [normal, area]
    build_direction,    \* argument build_direction
    angle_threshold,    \* argument angle_threshold (0.001 degree)
    angles,             \* local angles
    overhang_faces,     \* local boolean mask overhang_faces
    overhang_area,      \* returned value
    oh_raised,          \* exception raised by the call, or "none"
    oh_pc               \* "start" / "done"

vars == << pc, file_paths, idx, ret, processed_data, progress_value,
           progress_maximum, output_text, msgbox, save_path, saved,
           callback_exc, extents, fitting_machines, best_fit, fit_pc,
           tri_mesh, build_direction, angle_threshold, angles,
           overhang_faces, overhang_area, oh_raised, oh_pc >>

guiVars == << pc, file_paths, idx, ret, processed_data, progress_value,
              progress_maximum, output_text, msgbox, save_path, saved,
              callback_exc >>
fitVars == << extents, fitting_machines, best_fit, fit_pc >>
ohVars  == << tri_mesh, build_direction, angle_threshold, angles,
              overhang_faces, overhang_area, oh_raised, oh_pc >>

----------------------------------------------------------------------------
(* Bounds of the model *)

MaxFiles == 2
MaxFaces == 2

(* Fixed-point scale: 1 unit of the program = Milli model units *)
Milli == 1000

----------------------------------------------------------------------------
(* Python helpers *)

\* round(v, 2) on a value held in thousandths: nearest hundredth, ties to even
Round2_Ceil(v) ==
    IF v % 10 = 0 THEN v ELSE ((v \div 10) + 1) * 10

Round2(v) ==
    LET q == v \div 10
        r == v % 10
    IN  IF r < 5 THEN q * 10
        ELSE IF r > 5 THEN (q + 1) * 10
        ELSE IF q % 2 = 0 THEN q * 10 ELSE (q + 1) * 10

RECURSIVE SumSeq(_)
SumSeq(s) == IF s = << >> THEN 0 ELSE Head(s) + SumSeq(Tail(s))

----------------------------------------------------------------------------
(* Machine-fit loop of process_file *)

machine_limits ==
    << [name |-> "EOS M280/290", lim |-> <<250 * Milli, 250 * Milli, 315 * Milli>>],
       [name |-> "EOS M400",     lim |-> <<400 * Milli, 400 * Milli, 400 * Milli>>],
       [name |-> "SLM 500",      lim |-> <<500 * Milli, 250 * Milli, 315 * Milli>>] >>

\* index tuples in the order itertools.permutations yields them
PermutationOrder ==
    << <<1, 2, 3>>, <<1, 3, 2>>, <<2, 1, 3>>, <<2, 3, 1>>, <<3, 1, 2>>, <<3, 2, 1>> >>

Orientations_IdentityOnly(s) == << s >>

\* orientations = list(itertools.permutations([size_x, size_y, size_z]))
Orientations(s) ==
    [k \in 1..Len(PermutationOrder) |->
        << s[PermutationOrder[k][1]], s[PermutationOrder[k][2]], s[PermutationOrder[k][3]] >>]

Fits_Strict(o, lim) == o[1] < lim[1] /\ o[2] < lim[2] /\ o[3] < lim[3]

\* if ox <= mx and oy <= my and oz <= mz
Fits(o, lim) == o[1] <= lim[1] /\ o[2] <= lim[2] /\ o[3] <= lim[3]

\* for ox, oy, oz in orientations: the names the inner loop appends from
\* orientation k on; append and break at the first orientation that fits
RECURSIVE InnerLoop(_, _, _, _)
InnerLoop(name, lim, orientations, k) ==
    IF k > Len(orientations) THEN << >>
    ELSE IF Fits(orientations[k], lim)
         THEN << name >>
         ELSE InnerLoop(name, lim, orientations, k + 1)

\* for name, (mx, my, mz) in machine_limits.items(): from catalog entry m on
RECURSIVE MachineLoop(_, _)
MachineLoop(orientations, m) ==
    IF m > Len(machine_limits) THEN << >>
    ELSE InnerLoop(machine_limits[m].name, machine_limits[m].lim, orientations, 1)
         \o MachineLoop(orientations, m + 1)

FittingMachines(s) == MachineLoop(Orientations(s), 1)

\* ', '.join(fitting_machines) if fitting_machines else 'None'
\* (the joined text is kept as the sequence of its comma-separated parts)
BestFitText(fm) == IF fm # << >> THEN [t |-> "joined", parts |-> fm]
                   ELSE [t |-> "str", s |-> "None"]

----------------------------------------------------------------------------
(* calculate_overhang_area *)

\* face normals are unit vectors scaled by NormalScale; the normalized build
\* direction is held at the same scale, so a dot product is in units of
\* 1 / DotScale
NormalScale == 5
DotScale == NormalScale * NormalScale

\* numpy's nan, produced by 0 / 0.0 in the normalization
NaN == 999999

\* np.linalg.norm(build_direction), for directions whose norm is an integer
Norm(d) ==
    LET ss == d[1] * d[1] + d[2] * d[2] + d[3] * d[3]
    IN  CHOOSE r \in 0..ss : r * r = ss

\* build_direction / np.linalg.norm(build_direction); a zero norm gives nan
\* in every component (numpy warns, it does not raise)
Normalize(d) ==
    IF Norm(d) = 0 THEN << NaN, NaN, NaN >>
    ELSE [i \in 1..3 |-> (NormalScale * d[i]) \div Norm(d)]

\* one row of face_normals @ build_direction
Dot(n, b) ==
    IF NaN \in {b[1], b[2], b[3]} THEN NaN
    ELSE n[1] * b[1] + n[2] * b[2] + n[3] * b[3]

\* np.clip(dot_products, -1.0, 1.0); nan stays nan
Clip(x) ==
    IF x = NaN THEN NaN
    ELSE IF x < -DotScale THEN -DotScale
    ELSE IF x > DotScale THEN DotScale
    ELSE x

\* np.degrees(np.arccos(k / 25)) in 0.001 degree, for k = -25 .. 25
ArccosTable ==
    << 180000, 163740, 156926, 151642, 147140, 143130, 139464, 136054, 132844,
       129792, 126870, 124056, 121332, 118685, 116104, 113578, 111100, 108663,
       106260, 103887, 101537, 99207, 96892, 94589, 92292, 90000, 87708, 85411,
       83108, 80793, 78463, 76113, 73740, 71337, 68900, 66422, 63896, 61315,
       58668, 55944, 53130, 50208, 47156, 43946, 40536, 36870, 32860, 28358,
       23074, 16260, 0 >>

\* np.degrees(np.arccos(x)); nan stays nan
ArccosDeg(x) == IF x = NaN THEN NaN ELSE ArccosTable[x + DotScale + 1]

OverhangFace_Inclusive(angle, threshold) == angle # NaN /\ angle <= threshold

OverhangFace_Reversed(angle, threshold) == angle # NaN /\ angle > threshold

\* angles < angle_threshold, elementwise; any comparison with nan is False
OverhangFace(angle, threshold) == angle # NaN /\ angle < threshold

\* angles = np.degrees(np.arccos(np.clip(face_normals @ build_direction, -1, 1)))
Angles(mesh, direction) ==
    [i \in 1..Len(mesh) |-> ArccosDeg(Clip(Dot(mesh[i].normal, Normalize(direction))))]

\* overhang_faces = angles < angle_threshold
OverhangMask(angs, threshold) ==
    [i \in 1..Len(angs) |-> OverhangFace(angs[i], threshold)]

\* face_areas[overhang_faces]
RECURSIVE MaskedAreas(_, _, _)
MaskedAreas(mesh, mask, i) ==
    IF i > Len(mesh) THEN << >>
    ELSE (IF mask[i] THEN << mesh[i].area >> ELSE << >>) \o MaskedAreas(mesh, mask, i + 1)

\* calculate_overhang_area(tri_mesh, build_direction, angle_threshold):
\* its locals and its return value
calculate_overhang_area(mesh, direction, threshold) ==
    LET angs == Angles(mesh, direction)
        mask == OverhangMask(angs, threshold)
    IN  [angles |-> angs,
         overhang_faces |-> mask,
         result |-> Round2(SumSeq(MaskedAreas(mesh, mask, 1))),
         raised |-> "none"]

DefaultBuildDirection == << 0, 0, -1 >>
DefaultAngleThreshold == 45 * Milli

----------------------------------------------------------------------------
(* Python values used by process_file and open_files *)

None == [t |-> "None"]
Str(s) == [t |-> "str", s |-> s]

\* truth value of `if error:` for None or a str
Truthy(v) == v # None /\ v # Str("")

\* file paths as (directory, stem, extension as typed)
Paths ==
    { [dir |-> "/parts", stem |-> "plate",  ext |-> ".STL"],
      [dir |-> "/parts", stem |-> "beam",   ext |-> ".step"],
      [dir |-> "/parts", stem |-> "readme", ext |-> ".txt"] }

\* str.lower() on the extensions above
Lower(e) == IF e = ".STL" THEN ".stl" ELSE e

\* os.path.splitext(file_path)[-1].lower()
Ext(path) == Lower(path.ext)

\* os.path.basename(file_path)
Basename(path) == [stem |-> path.stem, ext |-> path.ext]

\* the extensions the if / elif chain of process_file loads
SupportedExts == { ".stl", ".obj", ".ply", ".step", ".stp", ".iges", ".igs" }

\* meshes the external loaders can hand back (faces, bounding-box extents,
\* volume), in thousandths
GuiMeshes ==
    { [faces   |-> << [normal |-> <<0, 0, -5>>, area |-> 1005],
                      [normal |-> <<0, 0, 5>>,  area |-> 1004],
                      [normal |-> <<5, 0, 0>>,  area |-> 2006] >>,
       extents |-> << 250004, 100 * Milli, 315 * Milli >>,
       volume  |-> 1234567],
      [faces   |-> << [normal |-> <<0, 3, -4>>, area |-> 6] >>,
       extents |-> << 600 * Milli, 10 * Milli, 10 * Milli >>,
       volume  |-> -15] }

\* str(e) of the exceptions the loaders and the analysis can raise
\* (str(MemoryError()) and str(AssertionError()) are the empty string)
ExcMessages == { "", "file is corrupt" }

\* what loading and analysing one file does: a mesh, or an exception
LoadOutcomes ==
    { [t |-> "mesh", mesh |-> m] : m \in GuiMeshes } \cup
    { [t |-> "raise", msg |-> s] : s \in ExcMessages }

\* tri_mesh.area
MeshArea(mesh) == SumSeq([i \in 1..Len(mesh.faces) |-> mesh.faces[i].area])

AppendRecord_Twice(data, row) == Append(Append(data, row), row)

\* processed_data.append([...])
AppendRecord(data, row) == Append(data, row)

\* process_file(file_path) with the loaders' outcome `load`: the returned
\* (result, error) and the new value of processed_data
process_file(path, load, data) ==
    IF Ext(path) \notin SupportedExts
    THEN [result |-> Str("Unsupported file format"), error |-> None, data |-> data]
    ELSE IF load.t = "raise"
    THEN [result |-> None, error |-> Str(load.msg), data |-> data]
    ELSE LET size    == load.mesh.extents
             volume  == Round2(load.mesh.volume)
             surface == Round2(MeshArea(load.mesh))
             overhang == calculate_overhang_area(load.mesh.faces,
                             DefaultBuildDirection, DefaultAngleThreshold).result
             fm      == FittingMachines(size)
             row     == [file |-> Basename(path),
                         x |-> Round2(size[1]), y |-> Round2(size[2]), z |-> Round2(size[3]),
                         volume |-> volume, surface_area |-> surface,
                         overhang_area |-> overhang, best_fit |-> BestFitText(fm)]
         IN  [result |-> [t |-> "report", row |-> row],
              error  |-> None,
              data   |-> AppendRecord(data, row)]

----------------------------------------------------------------------------
(* Tk callbacks: open_files and export_to_excel *)

\* maximum of a ttk.Progressbar that was never configured
ProgressDefaultMaximum == 100

\* non-empty selections the file dialog can return: distinct files
Selections ==
    UNION { { sel \in [1..n -> Paths] : \A i, j \in 1..n : sel[i] = sel[j] => i = j } :
            n \in 1..MaxFiles }

SavePaths == { "/out/results.xlsx" }

Headers ==
    << "File", "X (mm)", "Y (mm)", "Z (mm)", "Volume (mm3)", "Surface Area (mm2)",
       "Overhang Area (mm2)", "Best Fit Machine" >>

Clear_Keep(data) == data

\* processed_data.clear()
Clear(data) == << >>

\* entries inserted into output_text
ErrorEntry(path, error) == [t |-> "error", file |-> Basename(path), msg |-> error.s]
ResultEntry(result)     == [t |-> "result", text |-> result]
AllProcessedEntry       == [t |-> "all files processed"]

GuiInit ==
    /\ pc = "idle"
    /\ file_paths = << >>
    /\ idx = 0
    /\ ret = [result |-> None, error |-> None]
    /\ processed_data = << >>
    /\ progress_value = 0
    /\ progress_maximum = ProgressDefaultMaximum
    /\ output_text = << >>
    /\ msgbox = "none"
    /\ save_path = ""
    /\ saved = None
    /\ callback_exc = "none"

\* open_files: the dialog is cancelled, `if file_paths:` is false
OpenFilesCancel ==
    /\ pc = "idle"
    /\ file_paths' = << >>
    /\ callback_exc' = "none"
    /\ UNCHANGED << pc, idx, ret, processed_data, progress_value, progress_maximum,
                    output_text, msgbox, save_path, saved >>
    /\ UNCHANGED << fitVars, ohVars >>

\* open_files: files were selected; everything up to the for loop
OpenFilesStart ==
    /\ pc = "idle"
    /\ \E sel \in Selections :
          /\ file_paths' = sel
          /\ progress_maximum' = Len(sel)
    /\ output_text' = << >>
    /\ processed_data' = Clear(processed_data)
    /\ progress_value' = 0
    /\ idx' = 0
    /\ callback_exc' = "none"
    /\ pc' = "loop"
    /\ UNCHANGED << ret, msgbox, save_path, saved >>
    /\ UNCHANGED << fitVars, ohVars >>

\* one iteration of `for idx, path in enumerate(file_paths, start=1)`
LoopIteration ==
    /\ pc = "loop"
    /\ idx < Len(file_paths)
    /\ idx' = idx + 1
    /\ \E load \in LoadOutcomes :
          LET path == file_paths[idx + 1]
              r    == process_file(path, load, processed_data)
          IN  /\ ret' = [result |-> r.result, error |-> r.error]
              /\ processed_data' = r.data
              /\ IF Truthy(r.error)
                 THEN /\ output_text' = Append(output_text, ErrorEntry(path, r.error))
                      /\ progress_value' = idx + 1
                      /\ UNCHANGED << pc, callback_exc >>
                 ELSE IF r.result = None
                 \* result + "\n" with result None: TypeError leaves the callback
                 THEN /\ callback_exc' = "TypeError"
                      /\ pc' = "idle"
                      /\ UNCHANGED << output_text, progress_value >>
                 ELSE /\ output_text' = Append(output_text, ResultEntry(r.result))
                      /\ progress_value' = idx + 1
                      /\ UNCHANGED << pc, callback_exc >>
    /\ UNCHANGED << file_paths, progress_maximum, msgbox, save_path, saved >>
    /\ UNCHANGED << fitVars, ohVars >>

\* the for loop is exhausted: "All files processed."
LoopExit ==
    /\ pc = "loop"
    /\ idx = Len(file_paths)
    /\ output_text' = Append(output_text, AllProcessedEntry)
    /\ pc' = "idle"
    /\ UNCHANGED << file_paths, idx, ret, processed_data, progress_value,
                    progress_maximum, msgbox, save_path, saved, callback_exc >>
    /\ UNCHANGED << fitVars, ohVars >>

\* export_to_excel: `if not processed_data`
ExportNoData ==
    /\ pc = "idle"
    /\ processed_data = << >>
    /\ msgbox' = "warning: No Data"
    /\ callback_exc' = "none"
    /\ UNCHANGED << pc, file_paths, idx, ret, processed_data, progress_value,
                    progress_maximum, output_text, save_path, saved >>
    /\ UNCHANGED << fitVars, ohVars >>

\* export_to_excel: the save dialog is cancelled, `if not save_path`
ExportCancel ==
    /\ pc = "idle"
    /\ processed_data # << >>
    /\ save_path' = ""
    /\ callback_exc' = "none"
    /\ UNCHANGED << pc, file_paths, idx, ret, processed_data, progress_value,
                    progress_maximum, output_text, msgbox, saved >>
    /\ UNCHANGED << fitVars, ohVars >>

\* export_to_excel: header row, one row per record, wb.save
ExportSave ==
    /\ pc = "idle"
    /\ processed_data # << >>
    /\ \E sp \in SavePaths : save_path' = sp
    /\ saved' = [title |-> "Orientation Assist Results", headers |-> Headers,
                 rows |-> processed_data]
    /\ msgbox' = "info: Export Successful"
    /\ callback_exc' = "none"
    /\ UNCHANGED << pc, file_paths, idx, ret, processed_data, progress_value,
                    progress_maximum, output_text >>
    /\ UNCHANGED << fitVars, ohVars >>

Next ==
    \/ OpenFilesCancel
    \/ OpenFilesStart
    \/ LoopIteration
    \/ LoopExit
    \/ ExportNoData
    \/ ExportCancel
    \/ ExportSave

----------------------------------------------------------------------------
(* The machine-fit loop on its own *)

\* bounding-box extents around the catalog's limits
Dims ==
    { 100 * Milli, 250 * Milli, 250 * Milli + 1, 315 * Milli, 315 * Milli + 1,
      400 * Milli, 400 * Milli + 1, 500 * Milli, 500 * Milli + 1 }

FitIdle ==
    /\ extents = << 0, 0, 0 >>
    /\ fitting_machines = << >>
    /\ best_fit = None
    /\ fit_pc = "start"

\* lines 58-64 and the 'Best Fit Machine' text of line 72 / 83
FitMachines ==
    /\ fit_pc = "start"
    /\ fitting_machines' = FittingMachines(extents)
    /\ best_fit' = BestFitText(FittingMachines(extents))
    /\ fit_pc' = "done"
    /\ UNCHANGED << extents, guiVars, ohVars >>

----------------------------------------------------------------------------
(* calculate_overhang_area on its own *)

Normals == { <<0, 0, -5>>, <<0, 0, 5>>, <<5, 0, 0>>, <<0, 3, -4>> }
Areas == { 0, 4, 6, 1005 }
Faces == [normal : Normals, area : Areas]
Meshes == UNION { [1..n -> Faces] : n \in 0..MaxFaces }
Directions == { <<0, 0, -1>>, <<0, 0, -2>>, <<0, 0, 1>>, <<0, 3, -4>>, <<0, 0, 0>> }
Thresholds == { -Milli, 0, 45 * Milli, 90 * Milli, 180 * Milli, 181 * Milli }

OhIdle ==
    /\ tri_mesh = << >>
    /\ build_direction = DefaultBuildDirection
    /\ angle_threshold = DefaultAngleThreshold
    /\ angles = << >>
    /\ overhang_faces = << >>
    /\ overhang_area = 0
    /\ oh_raised = "none"
    /\ oh_pc = "start"

CalcOverhang ==
    /\ oh_pc = "start"
    /\ LET c == calculate_overhang_area(tri_mesh, build_direction, angle_threshold)
       IN  /\ angles' = c.angles
           /\ overhang_faces' = c.overhang_faces
           /\ overhang_area' = c.result
           /\ oh_raised' = c.raised
    /\ oh_pc' = "done"
    /\ UNCHANGED << tri_mesh, build_direction, angle_threshold, guiVars, fitVars >>

----------------------------------------------------------------------------
(* Specifications *)

Init == GuiInit /\ FitIdle /\ OhIdle
Spec == Init /\ [][Next]_vars

FitInit ==
    /\ GuiInit /\ OhIdle
    /\ extents \in Dims \X Dims \X Dims
    /\ fitting_machines = << >>
    /\ best_fit = None
    /\ fit_pc = "start"
FitNext == FitMachines
FitSpec == FitInit /\ [][FitNext]_vars

OhInit ==
    /\ GuiInit /\ FitIdle
    /\ tri_mesh \in Meshes
    /\ build_direction \in Directions
    /\ angle_threshold \in Thresholds
    /\ angles = << >>
    /\ overhang_faces = << >>
    /\ overhang_area = 0
    /\ oh_raised = "none"
    /\ oh_pc = "start"
OhNext == CalcOverhang
OhSpec == OhInit /\ [][OhNext]_vars

----------------------------------------------------------------------------
(* Properties of the machine-fit loop (FitSpec) *)

\* the 6 bijections of {1, 2, 3}
Bijections3 == { f \in [1..3 -> 1..3] : \A i, j \in 1..3 : f[i] = f[j] => i = j }

\* some assignment of the three extents to the machine's axes is within limits
SomePermutationFits(e, lim) ==
    \E f \in Bijections3 : \A i \in 1..3 : e[f[i]] <= lim[i]

Occurrences(seq, x) == Cardinality({ k \in 1..Len(seq) : seq[k] = x })

\* C1: the fit loop records a machine if and only if one of the 6
\* permutations of the extents is within that machine's limits on every
\* axis; each fitting name is recorded exactly once, nothing else is
\* recorded, and the text is 'None' only when no permutation fits any machine.
C1_FitIffSomePermutation ==
    fit_pc = "done" =>
        /\ \A m \in 1..Len(machine_limits) :
              Occurrences(fitting_machines, machine_limits[m].name) =
                 IF SomePermutationFits(extents, machine_limits[m].lim) THEN 1 ELSE 0
        /\ \A k \in 1..Len(fitting_machines) :
              \E m \in 1..Len(machine_limits) : fitting_machines[k] = machine_limits[m].name
        /\ (best_fit = Str("None")) <=>
              (\A m \in 1..Len(machine_limits) :
                  ~SomePermutationFits(extents, machine_limits[m].lim))

\* a machine is recorded although the extents do not fit in the order given,
\* and another machine is excluded
C1_Witness ==
    /\ fit_pc = "done"
    /\ \E m \in 1..Len(machine_limits) :
          /\ Occurrences(fitting_machines, machine_limits[m].name) = 1
          /\ \E i \in 1..3 : extents[i] > machine_limits[m].lim[i]
    /\ \E m \in 1..Len(machine_limits) :
          Occurrences(fitting_machines, machine_limits[m].name) = 0

\* C2: the list of fitting machines computed from the extents is the one the
\* loop computes from each of the 6 orderings of the same three extents.
C2_PermutationInvariant ==
    fit_pc = "done" =>
        \A f \in Bijections3 :
            FittingMachines(<< extents[f[1]], extents[f[2]], extents[f[3]] >>) = fitting_machines

\* three different extents, a machine fits, but not in the order given
C2_Witness ==
    /\ fit_pc = "done"
    /\ Cardinality({ extents[1], extents[2], extents[3] }) = 3
    /\ \E m \in 1..Len(machine_limits) :
          /\ Occurrences(fitting_machines, machine_limits[m].name) = 1
          /\ \E i \in 1..3 : extents[i] > machine_limits[m].lim[i]

----------------------------------------------------------------------------
(* Properties of calculate_overhang_area (OhSpec) *)

ZeroVector == << 0, 0, 0 >>

RawDot(n, d) == n[1] * d[1] + n[2] * d[2] + n[3] * d[3]

\* the sum of all face areas of the mesh under analysis
TotalArea == SumSeq([i \in 1..Len(tri_mesh) |-> tri_mesh[i].area])

\* normal exactly along / exactly against / exactly across the direction
Aligned(n, d)       == RawDot(n, d) > 0 /\ RawDot(n, d) * RawDot(n, d) = RawDot(n, n) * RawDot(d, d)
Opposite(n, d)      == RawDot(n, d) < 0 /\ RawDot(n, d) * RawDot(n, d) = RawDot(n, n) * RawDot(d, d)
Perpendicular(n, d) == RawDot(n, d) = 0

\* C3 as stated: for a non-zero direction the returned value is at least 0
\* and at most the sum of all face areas.
C3_Original ==
    (oh_pc = "done" /\ build_direction # ZeroVector) =>
        (0 <= overhang_area /\ overhang_area <= TotalArea)

\* C3 amended: for a non-zero direction the returned value is at least 0 and
\* exceeds the sum of all face areas by at most 0.005 (the rounding to 2
\* decimals).
C3_WithinRoundedTotal ==
    (oh_pc = "done" /\ build_direction # ZeroVector) =>
        (0 <= overhang_area /\ overhang_area <= TotalArea + 5)

\* the returned value is above the exact sum of the face areas
C3_Witness ==
    /\ oh_pc = "done"
    /\ build_direction # ZeroVector
    /\ tri_mesh # << >>
    /\ overhang_area > TotalArea

\* C6: a call with the zero vector as build direction fails with DomainError.
C6_ZeroDirectionRaises ==
    (oh_pc = "done" /\ build_direction = ZeroVector) => oh_raised = "DomainError"

\* C7 as stated: when every face normal is exactly opposite to the build
\* direction and the threshold is positive, the returned value is the total
\* surface area (up to the rounding to 2 decimals).
C7_Original ==
    (/\ oh_pc = "done"
     /\ tri_mesh # << >>
     /\ \A i \in 1..Len(tri_mesh) : Opposite(tri_mesh[i].normal, build_direction)
     /\ angle_threshold > 0)
    => (/\ overhang_area % 10 = 0
        /\ overhang_area - TotalArea <= 5
        /\ TotalArea - overhang_area <= 5)

\* C7 amended: when every face normal is exactly aligned with the build
\* direction (angle 0) and the threshold is positive, the returned value is
\* the total surface area rounded to 2 decimals.
C7_AlignedGivesTotal ==
    (/\ oh_pc = "done"
     /\ tri_mesh # << >>
     /\ \A i \in 1..Len(tri_mesh) : Aligned(tri_mesh[i].normal, build_direction)
     /\ angle_threshold > 0)
    => (/\ overhang_area % 10 = 0
        /\ overhang_area - TotalArea <= 5
        /\ TotalArea - overhang_area <= 5)

\* every face of a full-size mesh is aligned with the direction, and a
\* positive area is returned
C7_Witness ==
    /\ oh_pc = "done"
    /\ Len(tri_mesh) = MaxFaces
    /\ \A i \in 1..Len(tri_mesh) : Aligned(tri_mesh[i].normal, build_direction)
    /\ angle_threshold > 0
    /\ overhang_area > 0

\* the area of the faces whose angle is strictly below the threshold
C8_CountedArea ==
    SumSeq([i \in 1..Len(tri_mesh) |->
               IF angles[i] # NaN /\ angles[i] < angle_threshold
               THEN tri_mesh[i].area ELSE 0])

\* C8: a face is counted if and only if its angle is strictly less than the
\* threshold, and the result is the rounded area of the counted faces; a
\* face at exactly the threshold (0, 90 or 180 degrees) is not counted; a
\* mesh whose normals are all perpendicular to the direction gives 0 under
\* the default threshold of 45.
C8_StrictlyLess ==
    oh_pc = "done" =>
        /\ Len(angles) = Len(tri_mesh) /\ Len(overhang_faces) = Len(tri_mesh)
        /\ \A i \in 1..Len(tri_mesh) :
              /\ overhang_faces[i] <=> (angles[i] # NaN /\ angles[i] < angle_threshold)
              /\ (Aligned(tri_mesh[i].normal, build_direction) /\ angle_threshold = 0)
                    => ~overhang_faces[i]
              /\ (Perpendicular(tri_mesh[i].normal, build_direction) /\ angle_threshold = 90 * Milli)
                    => ~overhang_faces[i]
              /\ (Opposite(tri_mesh[i].normal, build_direction) /\ angle_threshold = 180 * Milli)
                    => ~overhang_faces[i]
        /\ overhang_area = Round2(C8_CountedArea)
        /\ ((\A i \in 1..Len(tri_mesh) : Perpendicular(tri_mesh[i].normal, build_direction))
             /\ angle_threshold = DefaultAngleThreshold) => overhang_area = 0

\* one face at exactly the threshold is left out while another is counted
C8_Witness ==
    /\ oh_pc = "done"
    /\ \E i, j \in 1..Len(tri_mesh) :
          /\ angles[i] = angle_threshold /\ tri_mesh[i].area > 0 /\ ~overhang_faces[i]
          /\ overhang_faces[j] /\ tri_mesh[j].area > 0
    /\ overhang_area > 0

----------------------------------------------------------------------------
(* Properties of the Tk callbacks (Spec) *)

\* the rows of the analysis reports shown in the output widget, in order
RECURSIVE ReportRows(_)
ReportRows(out) ==
    IF out = << >> THEN << >>
    ELSE (IF Head(out).t = "result" /\ Head(out).text.t = "report"
          THEN << Head(out).text.row >> ELSE << >>) \o ReportRows(Tail(out))

\* C4: once open_files has returned from a batch, whatever failed in it, the
\* progress counter equals the number of selected files, there is one output
\* entry per file, and the last entry is "All files processed.".
C4_BatchCompletes ==
    (pc = "idle" /\ file_paths # << >>) =>
        /\ progress_value = Len(file_paths)
        /\ Len(output_text) = Len(file_paths) + 1
        /\ output_text[Len(output_text)] = AllProcessedEntry

\* C5: whenever process_file returns without an analysis report, its error
\* slot holds an error (it is not None), and every entry displayed as a
\* result is an analysis report.
C5_FailuresAreErrors ==
    /\ (ret # [result |-> None, error |-> None] /\ ret.result.t # "report")
          => ret.error # None
    /\ \A k \in 1..Len(output_text) :
          output_text[k].t = "result" => output_text[k].text.t = "report"

\* C9: a step in which process_file is called appends exactly the record of
\* that file at the end of processed_data when the analysis succeeds and
\* leaves processed_data alone when it fails; every other step except the
\* start of a batch (export included) leaves processed_data unchanged.
C9_Step ==
    LET newBatch == pc = "idle" /\ pc' = "loop"
        call     == pc = "loop" /\ idx' = idx + 1
    IN  /\ call =>
              IF ret'.result.t = "report"
              THEN /\ processed_data' = Append(processed_data, ret'.result.row)
                   /\ ret'.result.row.file = Basename(file_paths[idx'])
              ELSE processed_data' = processed_data
        /\ (~call /\ ~newBatch) => processed_data' = processed_data

C9_AppendOnly == [][C9_Step]_vars

\* a batch with a failed and an analysed file has been exported
C9_Witness ==
    /\ pc = "idle"
    /\ Len(processed_data) >= 1
    /\ \E k \in 1..Len(output_text) : output_text[k].t = "error"
    /\ saved # None
    /\ saved.rows = processed_data

\* C10: starting a batch empties processed_data; a cancelled selection and
\* an export leave it as it was; at all times its records are those of the
\* reports shown for the current batch, and their number is at most the
\* number of files selected for that batch.
C10_Step ==
    /\ (pc = "idle" /\ pc' = "loop") => processed_data' = << >>
    /\ (pc = "idle" /\ pc' = "idle") => processed_data' = processed_data
    /\ Len(processed_data') <= progress_maximum'
    /\ processed_data' = ReportRows(output_text')

C10_OnlyLastBatch == [][C10_Step]_vars

\* a cancelled selection after a batch kept the records of that batch
C10_WitnessCancel ==
    /\ pc = "idle"
    /\ file_paths = << >>
    /\ processed_data # << >>

====
